---- MODULE Spec2Model ----
(***************************************************************************)
(* Verification workflow of the Kosen e-mail verification bot (src/main.go) *)
(* as a state machine.  Every interaction is handled by one goroutine; a    *)
(* slot p of Procs is one such goroutine, its locals are functions of p.    *)
(* Strings are TLA+ strings, used through Len, SubSeq and \o only.          *)
(***************************************************************************)
EXTENDS Integers, Sequences, FiniteSets, TLC

VARIABLES
    intSize,            \* width of Go's int on the build target (32 or 64)
    env,                \* the environment variables init reads, by the name of their global
    process,            \* life of the process: "init", "main", "running" or "exited"
    verificationCodes,  \* map[string]string: userID -> code (a function on the present keys)
    codesMutex,         \* 0 when unlocked, else the goroutine holding the lock
    pc,                 \* position of each goroutine in its handler
    cmd,                \* name of the command handled, or CustomID of the component
    userID,             \* i.Member.User.ID
    email,              \* option "email" of /verify
    userCode,           \* option "code" of /code
    b,                  \* generateVerificationCode: the 4 bytes rand.Read filled in
    code,               \* handleVerify: the generated code
    correctCode,        \* handleCode: value read from the map
    ok,                 \* handleCode: presence flag read from the map
    responses,          \* respondEphemeral calls of the invocation, in order
    mails,              \* sendVerificationEmail calls of the invocation, in order
    roleAdds,           \* GuildMemberRoleAdd calls of the invocation, in order
    chanDeletes,        \* ChannelDelete calls of the invocation, in order
    chanCreates,        \* GuildChannelCreateComplex calls of the invocation, in order
    embeds,             \* ChannelMessageSendEmbed calls of the invocation, in order
    prev                \* the invocation that returned last (sequential runs only)

locals == <<cmd, userID, email, userCode, b, code, correctCode, ok>>
calls  == <<responses, mails, roleAdds, chanDeletes>>
opened == <<chanCreates, embeds>>
host   == <<intSize, env, process>>
vars   == <<host, verificationCodes, codesMutex, pc, locals, calls, opened, prev>>

----------------------------------------------------------------------------
(* Bounds of the model *)

NumProcs == 2      \* goroutines that may handle interactions at once
NumUsers == 2      \* subjects
MaxDraw  == 1      \* low random bytes 0..MaxDraw in the workflow
MaxByte  == 2      \* byte values sampled around 0, 128 and 255 for the generator
MaxParts == 3      \* pieces an e-mail input is assembled from for the validator

Procs == 1..NumProcs
Users == 1..NumUsers

----------------------------------------------------------------------------
(* strings package *)

\* strings.Index(s, sep) for a non-empty sep, 0-based, -1 when absent
Index(s, sep) ==
    LET hits == { i \in 0..(Len(s) - Len(sep)) : SubSeq(s, i + 1, i + Len(sep)) = sep }
    IN  IF hits = {} THEN -1
        ELSE CHOOSE i \in hits : \A j \in hits : i <= j

\* strings.Split(s, sep) for a non-empty sep: the substrings between the separators
RECURSIVE Split(_, _)
Split(s, sep) ==
    LET i == Index(s, sep)
    IN  IF i < 0 THEN <<s>>
        ELSE <<SubSeq(s, 1, i)>> \o Split(SubSeq(s, i + Len(sep) + 1, Len(s)), sep)

\* strings.HasSuffix(s, suffix)
HasSuffix(s, suffix) ==
    /\ Len(s) >= Len(suffix)
    /\ SubSeq(s, Len(s) - Len(suffix) + 1, Len(s)) = suffix

----------------------------------------------------------------------------
(* isValidKosenEmail *)

\* faulty variant: any domain that ends in the root passes, the dot is not required
isValidKosenEmailNoDot(domain) ==
    HasSuffix(domain, "kosen-ac.jp")

isValidKosenEmail(domain) ==
    domain = "kosen-ac.jp" \/ HasSuffix(domain, ".kosen-ac.jp")

----------------------------------------------------------------------------
(* generateVerificationCode *)
(* A 32-bit quantity is kept as two 16-bit limbs <<hi, lo>> = hi * 65536 + lo, *)
(* so that no intermediate value leaves the range of the model's integers.    *)

IntSizes == {32, 64}     \* Go: int is 32 or 64 bits wide, depending on the target

\* int(b[0])<<24 | int(b[1])<<16 | int(b[2])<<8 | int(b[3]) evaluated in an int of
\* w bits: the fields do not overlap, so | adds; a 32-bit int wraps to a negative
\* value when the top bit is set, |v - 2^32| = 2^32 - v.
ComposeInt(bytes, w) ==
    LET hi == bytes[1] * 256 + bytes[2]
        lo == bytes[3] * 256 + bytes[4]
    IN  IF w = 32 /\ hi >= 32768
        THEN [neg |-> TRUE,
              hi  |-> 65536 - hi - (IF lo = 0 THEN 0 ELSE 1),
              lo  |-> (65536 - lo) % 65536]
        ELSE [neg |-> FALSE, hi |-> hi, lo |-> lo]

Digit(d) == SubSeq("0123456789", d + 1, d + 1)

\* fmt's integer loop: the decimal digits of hi * 65536 + lo, most significant first
RECURSIVE FmtDigits(_, _)
FmtDigits(hi, lo) ==
    LET t  == (hi % 10) * 65536 + lo
    IN  IF hi = 0 /\ lo < 10 THEN Digit(lo)
        ELSE FmtDigits(hi \div 10, t \div 10) \o Digit(t % 10)

\* fmt.Sprintf("%06d", v): zeros fill up to width 6, the sign counts in the width
Sprintf06d(v) ==
    LET digits == FmtDigits(v.hi, v.lo)
        prec   == IF v.neg THEN 5 ELSE 6
        padded == IF Len(digits) >= prec THEN digits
                  ELSE SubSeq("000000", 1, prec - Len(digits)) \o digits
    IN  (IF v.neg THEN "-" ELSE "") \o padded

\* the value generateVerificationCode returns for the bytes that rand.Read
\* delivered: the formatted integer cut to its first 6 characters
generateVerificationCode(bytes, w) ==
    SubSeq(Sprintf06d(ComposeInt(bytes, w)), 1, 6)

----------------------------------------------------------------------------
(* The environment of the process *)

\* the globals that init requires to be non-empty
Mandatory == { "botToken", "guildID", "verifiedRoleID", "gmailAddress",
               "gmailAppPassword", "welcomeChannelID" }

\* every global that init fills from the environment
Settings == Mandatory \cup { "privateCategoryID" }

\* os.Getenv: the empty string for an unset or empty variable, else its value
Environments == [Settings -> { "", "set" }]

\* an environment with every variable set
Configured == [k \in Settings |-> "set"]

\* the condition of init's log.Fatal
MissingRequired(e) ==
    \/ e["botToken"] = "" \/ e["guildID"] = "" \/ e["verifiedRoleID"] = ""
    \/ e["gmailAddress"] = "" \/ e["gmailAppPassword"] = "" \/ e["welcomeChannelID"] = ""

----------------------------------------------------------------------------
(* State after construction: package-level variables of main.go, no goroutine *)
(* handling an interaction yet.                                               *)

\* what is kept of the invocation that returned before the last one
NoPrior == [cmd |-> "", userID |-> 0, code |-> "", userCode |-> "", responses |-> << >>]

NoInvocation ==
    [cmd |-> "", userID |-> 0, email |-> "", userCode |-> "",
     b |-> <<0, 0, 0, 0>>, code |-> "",
     correctCode |-> "", ok |-> FALSE, responses |-> << >>, mails |-> << >>,
     roleAdds |-> << >>, chanDeletes |-> << >>, prior |-> NoPrior]

\* the locals and calls of goroutine p as one record
Invocation(p) ==
    [cmd |-> cmd[p], userID |-> userID[p], email |-> email[p],
     userCode |-> userCode[p], b |-> b[p], code |-> code[p], correctCode |-> correctCode[p],
     ok |-> ok[p], responses |-> responses[p], mails |-> mails[p],
     roleAdds |-> roleAdds[p], chanDeletes |-> chanDeletes[p], prior |-> NoPrior]

\* the same, with the invocation that returned before the last one attached
Chained(p) ==
    [Invocation(p) EXCEPT !.prior =
        [cmd |-> prev.cmd, userID |-> prev.userID, code |-> prev.code,
         userCode |-> prev.userCode, responses |-> prev.responses]]

\* the package-level variables as their declarations leave them
Globals ==
    /\ intSize \in IntSizes
    /\ verificationCodes = [u \in {} |-> ""]
    /\ codesMutex = 0
    /\ pc = [p \in Procs |-> "idle"]
    /\ cmd = [p \in Procs |-> ""]
    /\ userID = [p \in Procs |-> 0]
    /\ email = [p \in Procs |-> ""]
    /\ userCode = [p \in Procs |-> ""]
    /\ b = [p \in Procs |-> <<0, 0, 0, 0>>]
    /\ code = [p \in Procs |-> ""]
    /\ correctCode = [p \in Procs |-> ""]
    /\ ok = [p \in Procs |-> FALSE]
    /\ responses = [p \in Procs |-> << >>]
    /\ mails = [p \in Procs |-> << >>]
    /\ roleAdds = [p \in Procs |-> << >>]
    /\ chanDeletes = [p \in Procs |-> << >>]
    /\ chanCreates = [p \in Procs |-> << >>]
    /\ embeds = [p \in Procs |-> << >>]
    /\ prev = NoInvocation

\* the bot connected and serving, started with a complete environment
Init ==
    /\ env = Configured
    /\ process = "running"
    /\ Globals

\* the process as the runtime starts it, before init has run, in any environment
StartupInit ==
    /\ env \in Environments
    /\ process = "init"
    /\ Globals

----------------------------------------------------------------------------
(* init and main *)

\* faulty variant: init goes on whatever the environment holds
initNoCheck ==
    /\ process = "init"
    /\ process' = "main"
    /\ UNCHANGED <<intSize, env, verificationCodes, codesMutex, pc, locals, calls,
                   opened, prev>>

\* init(): the globals are filled from the environment; log.Fatal ends the
\* process when a required one is empty
init ==
    /\ process = "init"
    /\ process' = IF MissingRequired(env) THEN "exited" ELSE "main"
    /\ UNCHANGED <<intSize, env, verificationCodes, codesMutex, pc, locals, calls,
                   opened, prev>>

\* main(): discordgo.New, AddHandler and dg.Open; an error of New or Open is
\* fatal, else interactions are served until a signal arrives
main(err) ==
    /\ process = "main"
    /\ process' = IF err THEN "exited" ELSE "running"
    /\ UNCHANGED <<intSize, env, verificationCodes, codesMutex, pc, locals, calls,
                   opened, prev>>

----------------------------------------------------------------------------
(* Calls to the collaborators.  Each appends to the invocation's call log;   *)
(* the texts of the responses are abbreviated to tags.                       *)

\* respondEphemeral(s, i, content): the result of InteractionRespond is dropped
respondEphemeral(p, content) ==
    responses' = [responses EXCEPT ![p] = Append(@, content)]

\* codesMutex.Lock(): blocks while another goroutine holds the mutex
Lock(p) ==
    /\ codesMutex = 0
    /\ codesMutex' = p

\* faulty variant: Unlock leaves the mutex with its holder
UnlockKeeps(p) ==
    codesMutex' = codesMutex

\* codesMutex.Unlock()
Unlock(p) ==
    codesMutex' = 0

----------------------------------------------------------------------------
(* interactionHandler: an application command is routed by its name, a       *)
(* message component by its CustomID; events arrive while the process runs   *)

startVerificationButtonID == "start_verification_button"

DispatchVerify(p, u, e) ==
    /\ process = "running"
    /\ pc[p] = "idle"
    /\ cmd' = [cmd EXCEPT ![p] = "verify"]
    /\ userID' = [userID EXCEPT ![p] = u]
    /\ email' = [email EXCEPT ![p] = e]
    /\ pc' = [pc EXCEPT ![p] = "v_validate"]
    /\ UNCHANGED <<host, opened, verificationCodes, codesMutex, userCode, b, code,
                   correctCode, ok, calls, prev>>

DispatchCode(p, u, c) ==
    /\ process = "running"
    /\ pc[p] = "idle"
    /\ cmd' = [cmd EXCEPT ![p] = "code"]
    /\ userID' = [userID EXCEPT ![p] = u]
    /\ userCode' = [userCode EXCEPT ![p] = c]
    /\ pc' = [pc EXCEPT ![p] = "c_lock"]
    /\ UNCHANGED <<host, opened, verificationCodes, codesMutex, email, b, code,
                   correctCode, ok, calls, prev>>

DispatchButton(p, u) ==
    /\ process = "running"
    /\ pc[p] = "idle"
    /\ cmd' = [cmd EXCEPT ![p] = startVerificationButtonID]
    /\ userID' = [userID EXCEPT ![p] = u]
    /\ pc' = [pc EXCEPT ![p] = "s_respond"]
    /\ UNCHANGED <<host, opened, verificationCodes, codesMutex, email, userCode,
                   b, code, correctCode, ok, calls, prev>>

----------------------------------------------------------------------------
(* handleVerify *)

\* faulty variant: the domain is not checked, only the number of parts
InvalidEmailPartsOnly(e) ==
    Len(Split(e, "@")) # 2

\* len(domainParts) != 2 || !isValidKosenEmail(domainParts[1])
InvalidEmail(e) ==
    LET domainParts == Split(e, "@")
    IN  Len(domainParts) # 2 \/ ~isValidKosenEmail(domainParts[2])

\* faulty variant: the return after the domain error is missing
VerifyValidateNoReturn(p) ==
    /\ pc[p] = "v_validate"
    /\ IF InvalidEmail(email[p])
       THEN respondEphemeral(p, "ErrDomain")
       ELSE UNCHANGED responses
    /\ pc' = [pc EXCEPT ![p] = "v_generate"]
    /\ UNCHANGED <<host, opened, verificationCodes, codesMutex, locals, mails,
                   roleAdds, chanDeletes, prev>>

\* the domain check and its early return
VerifyValidate(p) ==
    /\ pc[p] = "v_validate"
    /\ IF InvalidEmail(email[p])
       THEN /\ respondEphemeral(p, "ErrDomain")
            /\ pc' = [pc EXCEPT ![p] = "return"]
       ELSE /\ pc' = [pc EXCEPT ![p] = "v_generate"]
            /\ UNCHANGED responses
    /\ UNCHANGED <<host, opened, verificationCodes, codesMutex, locals, mails,
                   roleAdds, chanDeletes, prev>>

\* faulty variant: the failed generation still writes its empty result to the map
VerifyGenerateFailStores(p) ==
    /\ pc[p] = "v_generate"
    /\ respondEphemeral(p, "ErrInternal")
    /\ verificationCodes' =
           [u \in DOMAIN verificationCodes \cup {userID[p]} |->
               IF u = userID[p] THEN code[p] ELSE verificationCodes[u]]
    /\ pc' = [pc EXCEPT ![p] = "return"]
    /\ UNCHANGED <<host, opened, codesMutex, locals, mails, roleAdds, chanDeletes, prev>>

\* generateVerificationCode returned an error: rand.Read failed
VerifyGenerateFail(p) ==
    /\ pc[p] = "v_generate"
    /\ respondEphemeral(p, "ErrInternal")
    /\ pc' = [pc EXCEPT ![p] = "return"]
    /\ UNCHANGED <<host, opened, verificationCodes, codesMutex, locals, mails,
                   roleAdds, chanDeletes, prev>>

\* generateVerificationCode succeeded, rand.Read having filled b with bytes
\* out of draws
VerifyGenerate(p, draws) ==
    /\ pc[p] = "v_generate"
    /\ \E bytes \in draws :
          /\ b' = [b EXCEPT ![p] = bytes]
          /\ code' = [code EXCEPT ![p] = generateVerificationCode(bytes, intSize)]
    /\ pc' = [pc EXCEPT ![p] = "v_lock"]
    /\ UNCHANGED <<host, opened, verificationCodes, codesMutex, cmd, userID, email,
                   userCode, correctCode, ok, calls, prev>>

\* faulty variant: the handler goes to the mail send without writing the map
VerifyLockSkipsStore(p) ==
    /\ pc[p] = "v_lock"
    /\ pc' = [pc EXCEPT ![p] = "v_send"]
    /\ UNCHANGED <<host, opened, verificationCodes, codesMutex, locals, calls, prev>>

VerifyLock(p) ==
    /\ pc[p] = "v_lock"
    /\ Lock(p)
    /\ pc' = [pc EXCEPT ![p] = "v_store"]
    /\ UNCHANGED <<host, opened, verificationCodes, locals, calls, prev>>

\* faulty variant: an existing record is kept, the first code wins
VerifyStoreKeepsFirst(p) ==
    /\ pc[p] = "v_store"
    /\ verificationCodes' =
           [u \in DOMAIN verificationCodes \cup {userID[p]} |->
               IF u \in DOMAIN verificationCodes THEN verificationCodes[u] ELSE code[p]]
    /\ Unlock(p)
    /\ pc' = [pc EXCEPT ![p] = "v_send"]
    /\ UNCHANGED <<host, opened, locals, calls, prev>>

\* faulty variant: the new code is added to the record, the old one staying in it
VerifyStoreAdds(p) ==
    /\ pc[p] = "v_store"
    /\ verificationCodes' =
           [u \in DOMAIN verificationCodes \cup {userID[p]} |->
               IF u # userID[p] THEN verificationCodes[u]
               ELSE IF u \in DOMAIN verificationCodes
                    THEN verificationCodes[u] \o code[p] ELSE code[p]]
    /\ Unlock(p)
    /\ pc' = [pc EXCEPT ![p] = "v_send"]
    /\ UNCHANGED <<host, opened, locals, calls, prev>>

\* faulty variant: the mutex is not released after the write
VerifyStoreHoldsLock(p) ==
    /\ pc[p] = "v_store"
    /\ verificationCodes' =
           [u \in DOMAIN verificationCodes \cup {userID[p]} |->
               IF u = userID[p] THEN code[p] ELSE verificationCodes[u]]
    /\ pc' = [pc EXCEPT ![p] = "v_send"]
    /\ UNCHANGED <<host, opened, codesMutex, locals, calls, prev>>

\* verificationCodes[userID] = code, then Unlock
VerifyStore(p) ==
    /\ pc[p] = "v_store"
    /\ verificationCodes' =
           [u \in DOMAIN verificationCodes \cup {userID[p]} |->
               IF u = userID[p] THEN code[p] ELSE verificationCodes[u]]
    /\ Unlock(p)
    /\ pc' = [pc EXCEPT ![p] = "v_send"]
    /\ UNCHANGED <<host, opened, locals, calls, prev>>

\* faulty variant: a failed send takes the record back out of the map
VerifySendRollsBack(p, err) ==
    /\ pc[p] = "v_send"
    /\ mails' = [mails EXCEPT ![p] =
                   Append(@, [recipient |-> email[p], code |-> code[p], err |-> err])]
    /\ respondEphemeral(p, IF err THEN "ErrMail" ELSE "Sent")
    /\ verificationCodes' =
           IF err
           THEN [u \in DOMAIN verificationCodes \ {userID[p]} |-> verificationCodes[u]]
           ELSE verificationCodes
    /\ pc' = [pc EXCEPT ![p] = "return"]
    /\ UNCHANGED <<host, opened, codesMutex, locals, roleAdds, chanDeletes, prev>>

\* faulty variant: the code is written to the map once more when its mail is sent
VerifySendRewrites(p, err) ==
    /\ pc[p] = "v_send"
    /\ mails' = [mails EXCEPT ![p] =
                   Append(@, [recipient |-> email[p], code |-> code[p], err |-> err])]
    /\ respondEphemeral(p, IF err THEN "ErrMail" ELSE "Sent")
    /\ verificationCodes' =
           [u \in DOMAIN verificationCodes \cup {userID[p]} |->
               IF u = userID[p] THEN code[p] ELSE verificationCodes[u]]
    /\ pc' = [pc EXCEPT ![p] = "return"]
    /\ UNCHANGED <<host, opened, codesMutex, locals, roleAdds, chanDeletes, prev>>

\* faulty variant: a failed send is tried again
VerifySendRetries(p, err) ==
    /\ pc[p] = "v_send"
    /\ mails' = [mails EXCEPT ![p] =
                   Append(@, [recipient |-> email[p], code |-> code[p], err |-> err])]
    /\ IF err
       THEN UNCHANGED <<responses, pc>>
       ELSE /\ respondEphemeral(p, "Sent")
            /\ pc' = [pc EXCEPT ![p] = "return"]
    /\ UNCHANGED <<host, opened, verificationCodes, codesMutex, locals, roleAdds,
                   chanDeletes, prev>>

\* sendVerificationEmail(email, code) and the response that follows it
VerifySend(p, err) ==
    /\ pc[p] = "v_send"
    /\ mails' = [mails EXCEPT ![p] =
                   Append(@, [recipient |-> email[p], code |-> code[p], err |-> err])]
    /\ respondEphemeral(p, IF err THEN "ErrMail" ELSE "Sent")
    /\ pc' = [pc EXCEPT ![p] = "return"]
    /\ UNCHANGED <<host, opened, verificationCodes, codesMutex, locals, roleAdds,
                   chanDeletes, prev>>

----------------------------------------------------------------------------
(* handleCode *)

CodeLock(p) ==
    /\ pc[p] = "c_lock"
    /\ Lock(p)
    /\ pc' = [pc EXCEPT ![p] = "c_read"]
    /\ UNCHANGED <<host, opened, verificationCodes, locals, calls, prev>>

\* faulty variant: the read takes the record of any subject that holds the submitted code
CodeReadAnySubject(p) ==
    /\ pc[p] = "c_read"
    /\ ok' = [ok EXCEPT ![p] =
                 \E u \in DOMAIN verificationCodes : verificationCodes[u] = userCode[p]]
    /\ correctCode' = [correctCode EXCEPT ![p] =
                         IF \E u \in DOMAIN verificationCodes :
                                verificationCodes[u] = userCode[p]
                         THEN userCode[p] ELSE ""]
    /\ Unlock(p)
    /\ pc' = [pc EXCEPT ![p] = "c_check"]
    /\ UNCHANGED <<host, opened, verificationCodes, cmd, userID, email, userCode,
                   b, code, calls, prev>>

\* correctCode, ok := verificationCodes[userID], then Unlock; a missing key
\* reads as the empty string and false
CodeRead(p) ==
    /\ pc[p] = "c_read"
    /\ ok' = [ok EXCEPT ![p] = userID[p] \in DOMAIN verificationCodes]
    /\ correctCode' = [correctCode EXCEPT ![p] =
                         IF userID[p] \in DOMAIN verificationCodes
                         THEN verificationCodes[userID[p]] ELSE ""]
    /\ Unlock(p)
    /\ pc' = [pc EXCEPT ![p] = "c_check"]
    /\ UNCHANGED <<host, opened, verificationCodes, cmd, userID, email, userCode,
                   b, code, calls, prev>>

\* faulty variant: the presence flag is ignored
MismatchIgnoresOk(p) ==
    userCode[p] # correctCode[p]

\* !ok || userCode != correctCode
Mismatch(p) ==
    ~ok[p] \/ userCode[p] # correctCode[p]

\* faulty variant: a rejected attempt consumes the record
CodeRejectConsumes(p) ==
    /\ pc[p] = "c_check"
    /\ Mismatch(p)
    /\ respondEphemeral(p, "ErrCode")
    /\ verificationCodes' =
           [u \in DOMAIN verificationCodes \ {userID[p]} |-> verificationCodes[u]]
    /\ pc' = [pc EXCEPT ![p] = "return"]
    /\ UNCHANGED <<host, opened, codesMutex, locals, mails, roleAdds, chanDeletes, prev>>

\* the early return on a missing record or a wrong code
CodeReject(p) ==
    /\ pc[p] = "c_check"
    /\ Mismatch(p)
    /\ respondEphemeral(p, "ErrCode")
    /\ pc' = [pc EXCEPT ![p] = "return"]
    /\ UNCHANGED <<host, opened, verificationCodes, codesMutex, locals, mails,
                   roleAdds, chanDeletes, prev>>

\* faulty variant: the handler goes on to the delete although the grant failed
CodeRoleAddNoAbort(p, err) ==
    /\ pc[p] = "c_check"
    /\ ~Mismatch(p)
    /\ roleAdds' = [roleAdds EXCEPT ![p] =
                      Append(@, [userID |-> userID[p], role |-> "verifiedRoleID",
                                 err |-> err])]
    /\ respondEphemeral(p, IF err THEN "ErrRole" ELSE "Success")
    /\ pc' = [pc EXCEPT ![p] = "c_lock2"]
    /\ UNCHANGED <<host, opened, verificationCodes, codesMutex, locals, mails,
                   chanDeletes, prev>>

\* s.GuildMemberRoleAdd(i.GuildID, userID, verifiedRoleID) and the response
\* that follows it
CodeRoleAdd(p, err) ==
    /\ pc[p] = "c_check"
    /\ ~Mismatch(p)
    /\ roleAdds' = [roleAdds EXCEPT ![p] =
                      Append(@, [userID |-> userID[p], role |-> "verifiedRoleID",
                                 err |-> err])]
    /\ respondEphemeral(p, IF err THEN "ErrRole" ELSE "Success")
    /\ pc' = [pc EXCEPT ![p] = IF err THEN "return" ELSE "c_lock2"]
    /\ UNCHANGED <<host, opened, verificationCodes, codesMutex, locals, mails,
                   chanDeletes, prev>>

CodeLock2(p) ==
    /\ pc[p] = "c_lock2"
    /\ Lock(p)
    /\ pc' = [pc EXCEPT ![p] = "c_delete"]
    /\ UNCHANGED <<host, opened, verificationCodes, locals, calls, prev>>

\* faulty variant: the record is left in the map
CodeDeleteKeeps(p) ==
    /\ pc[p] = "c_delete"
    /\ Unlock(p)
    /\ pc' = [pc EXCEPT ![p] = "c_sleep"]
    /\ UNCHANGED <<host, opened, verificationCodes, locals, calls, prev>>

\* faulty variant: the delete empties the whole map
CodeDeleteClearsAll(p) ==
    /\ pc[p] = "c_delete"
    /\ verificationCodes' = [u \in {} |-> ""]
    /\ Unlock(p)
    /\ pc' = [pc EXCEPT ![p] = "c_sleep"]
    /\ UNCHANGED <<host, opened, locals, calls, prev>>

\* delete(verificationCodes, userID), then Unlock
CodeDelete(p) ==
    /\ pc[p] = "c_delete"
    /\ verificationCodes' =
           [u \in DOMAIN verificationCodes \ {userID[p]} |-> verificationCodes[u]]
    /\ Unlock(p)
    /\ pc' = [pc EXCEPT ![p] = "c_sleep"]
    /\ UNCHANGED <<host, opened, locals, calls, prev>>

\* faulty variant: a failed deletion puts the record back into the map
CodeChannelDeleteRestores(p, err) ==
    /\ pc[p] = "c_sleep"
    /\ chanDeletes' = [chanDeletes EXCEPT ![p] =
                         Append(@, [channel |-> "i.ChannelID", err |-> err])]
    /\ verificationCodes' =
           IF err
           THEN [u \in DOMAIN verificationCodes \cup {userID[p]} |->
                    IF u = userID[p] THEN correctCode[p] ELSE verificationCodes[u]]
           ELSE verificationCodes
    /\ pc' = [pc EXCEPT ![p] = "return"]
    /\ UNCHANGED <<host, opened, codesMutex, locals, responses, mails, roleAdds, prev>>

\* time.Sleep(10 * time.Second), then s.ChannelDelete(i.ChannelID); its error
\* is logged only
CodeChannelDelete(p, err) ==
    /\ pc[p] = "c_sleep"
    /\ chanDeletes' = [chanDeletes EXCEPT ![p] =
                         Append(@, [channel |-> "i.ChannelID", err |-> err])]
    /\ pc' = [pc EXCEPT ![p] = "return"]
    /\ UNCHANGED <<host, opened, verificationCodes, codesMutex, locals, responses,
                   mails, roleAdds, prev>>

----------------------------------------------------------------------------
(* handleStartVerification *)

\* s.InteractionRespond with the ephemeral flag, its result dropped
StartRespond(p) ==
    /\ pc[p] = "s_respond"
    /\ respondEphemeral(p, "Creating")
    /\ pc' = [pc EXCEPT ![p] = "s_create"]
    /\ UNCHANGED <<host, opened, verificationCodes, codesMutex, locals, mails,
                   roleAdds, chanDeletes, prev>>

\* s.GuildChannelCreateComplex(guildID, ...) under privateCategoryID; on an
\* error the handler logs and returns
StartCreate(p, err) ==
    /\ pc[p] = "s_create"
    /\ chanCreates' = [chanCreates EXCEPT ![p] =
                         Append(@, [userID |-> userID[p],
                                    ParentID |-> env["privateCategoryID"],
                                    err |-> err])]
    /\ pc' = [pc EXCEPT ![p] = IF err THEN "return" ELSE "s_embed"]
    /\ UNCHANGED <<host, embeds, verificationCodes, codesMutex, locals, calls, prev>>

\* s.ChannelMessageSendEmbed(channel.ID, embed), its result dropped
StartEmbed(p) ==
    /\ pc[p] = "s_embed"
    /\ embeds' = [embeds EXCEPT ![p] = Append(@, [userID |-> userID[p]])]
    /\ pc' = [pc EXCEPT ![p] = "return"]
    /\ UNCHANGED <<host, chanCreates, verificationCodes, codesMutex, locals, calls,
                   prev>>

----------------------------------------------------------------------------
(* The handler returns and its goroutine ends; last is what is kept of it *)

Return(p, last) ==
    /\ pc[p] = "return"
    /\ pc' = [pc EXCEPT ![p] = "idle"]
    /\ cmd' = [cmd EXCEPT ![p] = ""]
    /\ userID' = [userID EXCEPT ![p] = 0]
    /\ email' = [email EXCEPT ![p] = ""]
    /\ userCode' = [userCode EXCEPT ![p] = ""]
    /\ b' = [b EXCEPT ![p] = <<0, 0, 0, 0>>]
    /\ code' = [code EXCEPT ![p] = ""]
    /\ correctCode' = [correctCode EXCEPT ![p] = ""]
    /\ ok' = [ok EXCEPT ![p] = FALSE]
    /\ responses' = [responses EXCEPT ![p] = << >>]
    /\ mails' = [mails EXCEPT ![p] = << >>]
    /\ roleAdds' = [roleAdds EXCEPT ![p] = << >>]
    /\ chanDeletes' = [chanDeletes EXCEPT ![p] = << >>]
    /\ chanCreates' = [chanCreates EXCEPT ![p] = << >>]
    /\ embeds' = [embeds EXCEPT ![p] = << >>]
    /\ prev' = last
    /\ UNCHANGED <<host, verificationCodes, codesMutex>>

\* the steps of handleVerify after its dispatch, rand.Read drawing from draws
VerifyStep(p, draws) ==
    \/ VerifyValidate(p)
    \/ VerifyGenerateFail(p)
    \/ VerifyGenerate(p, draws)
    \/ VerifyLock(p)
    \/ VerifyStore(p)
    \/ \E err \in BOOLEAN : VerifySend(p, err)

\* the steps of handleStartVerification after its dispatch
ButtonStep(p) ==
    \/ StartRespond(p)
    \/ \E err \in BOOLEAN : StartCreate(p, err)
    \/ StartEmbed(p)

\* the steps of handleCode after its dispatch
CodeStep(p) ==
    \/ CodeLock(p)
    \/ CodeRead(p)
    \/ CodeReject(p)
    \/ \E err \in BOOLEAN : CodeRoleAdd(p, err)
    \/ CodeLock2(p)
    \/ CodeDelete(p)
    \/ \E err \in BOOLEAN : CodeChannelDelete(p, err)

----------------------------------------------------------------------------
(* Inputs of the workflow *)

\* bytes rand.Read delivers in the workflow: small values and one with the top bit set
RandomDraws == { <<0, 0, 0, k>> : k \in 0..MaxDraw } \cup { <<128, 0, 0, 0>> }

\* e-mail options of /verify: the root domain, a subdomain, a foreign domain
Emails == { "a@kosen-ac.jp", "a@sub.kosen-ac.jp", "a@example.com" }

\* code options of /code: every code the draws can yield, and the empty string
UserCodes ==
    { generateVerificationCode(bytes, w) : bytes \in RandomDraws, w \in IntSizes } \cup { "" }

\* two draws of rand.Read, and the codes they yield, for the narrower runs
RaceDraws == { <<0, 0, 0, 0>>, <<0, 0, 0, 1>> }

RaceCodes == { generateVerificationCode(bytes, w) : bytes \in RaceDraws, w \in IntSizes }

----------------------------------------------------------------------------
(* Spec: interactions are handled concurrently, one goroutine each *)

Next ==
    \E p \in Procs :
        \/ \E u \in Users, e \in Emails : DispatchVerify(p, u, e)
        \/ \E u \in Users, c \in UserCodes : DispatchCode(p, u, c)
        \/ \E u \in Users : DispatchButton(p, u)
        \/ VerifyStep(p, RandomDraws)
        \/ CodeStep(p)
        \/ ButtonStep(p)
        \/ Return(p, prev)

Spec == Init /\ [][Next]_vars

(* SeqSpec: one interaction at a time, each handled to its return before the *)
(* next is dispatched; prev keeps the invocation that returned last          *)

AllIdle == \A q \in Procs : pc[q] = "idle"

SeqNext ==
    \E p \in Procs :
        \/ AllIdle /\ \E u \in Users, e \in Emails : DispatchVerify(p, u, e)
        \/ AllIdle /\ \E u \in Users, c \in UserCodes : DispatchCode(p, u, c)
        \/ VerifyStep(p, RandomDraws)
        \/ CodeStep(p)
        \/ Return(p, Invocation(p))

SeqSpec == Init /\ [][SeqNext]_vars

(* ChainSpec: as SeqSpec for one subject and the root-domain e-mail alone,   *)
(* prev also keeping the invocation that returned before the last one       *)

ChainNext ==
    \E p \in Procs :
        \/ AllIdle /\ DispatchVerify(p, 1, "a@kosen-ac.jp")
        \/ AllIdle /\ \E c \in UserCodes : DispatchCode(p, 1, c)
        \/ VerifyStep(p, RandomDraws)
        \/ CodeStep(p)
        \/ Return(p, Chained(p))

ChainSpec == Init /\ [][ChainNext]_vars

(* DomainSpec: /verify commands alone, one at a time, over a wide set of     *)
(* e-mail inputs assembled from up to MaxParts pieces                        *)

Pieces == { "u", "@", "x", "kosen-ac.jp", ".kosen-ac.jp", ".com" }

RECURSIVE Assembled(_)
Assembled(n) ==
    IF n = 0 THEN { "" }
    ELSE Assembled(n - 1) \cup { s \o t : s \in Assembled(n - 1), t \in Pieces }

EmailInputs == Assembled(MaxParts)

DomainNext ==
    \E p \in Procs :
        \/ AllIdle /\ \E e \in EmailInputs : DispatchVerify(p, 1, e)
        \/ VerifyStep(p, { <<0, 0, 0, 0>> })
        \/ Return(p, prev)

DomainSpec == Init /\ [][DomainNext]_vars

(* GenSpec: the first /verify after start-up, rand.Read drawing its 4 bytes  *)
(* from values around 0, 128 and 255                                         *)

ByteValues == (0..MaxByte) \cup (128..(128 + MaxByte)) \cup ((255 - MaxByte)..255)

ByteInputs == { <<b0, b1, b2, b3>> : b0 \in ByteValues, b1 \in ByteValues,
                                     b2 \in ByteValues, b3 \in ByteValues }

GenNext ==
    \E p \in Procs :
        \/ /\ AllIdle
           /\ DOMAIN verificationCodes = {}
           /\ DispatchVerify(p, 1, "a@kosen-ac.jp")
        \/ VerifyStep(p, ByteInputs)
        \/ Return(p, prev)

GenSpec == Init /\ [][GenNext]_vars

(* FrameSpec: commands and button clicks of every subject, one interaction   *)
(* at a time, with a valid and a foreign e-mail, two random draws and the    *)
(* codes they yield; prev keeps the invocation that returned last            *)

FrameNext ==
    \E p \in Procs :
        \/ /\ AllIdle
           /\ \E u \in Users, e \in { "a@kosen-ac.jp", "a@example.com" } :
                  DispatchVerify(p, u, e)
        \/ AllIdle /\ \E u \in Users, c \in RaceCodes : DispatchCode(p, u, c)
        \/ AllIdle /\ \E u \in Users : DispatchButton(p, u)
        \/ VerifyStep(p, RaceDraws)
        \/ CodeStep(p)
        \/ ButtonStep(p)
        \/ Return(p, Invocation(p))

FrameSpec == Init /\ [][FrameNext]_vars

(* RaceSpec: the interactions of one subject handled concurrently, with two  *)
(* random draws and the codes they yield                                      *)

RaceNext ==
    \E p \in Procs :
        \/ DispatchVerify(p, 1, "a@kosen-ac.jp")
        \/ \E c \in RaceCodes : DispatchCode(p, 1, c)
        \/ DispatchButton(p, 1)
        \/ VerifyStep(p, RaceDraws)
        \/ CodeStep(p)
        \/ ButtonStep(p)
        \/ Return(p, prev)

RaceSpec == Init /\ [][RaceNext]_vars

(* ConfirmRaceSpec: /code commands of one subject handled concurrently; a    *)
(* /verify is dispatched only while no goroutine is busy and the map is      *)
(* empty, so that all /code commands in flight at one time follow the write  *)
(* of one /verify                                                            *)

ConfirmRaceNext ==
    \E p \in Procs :
        \/ /\ AllIdle
           /\ DOMAIN verificationCodes = {}
           /\ DispatchVerify(p, 1, "a@kosen-ac.jp")
        \/ \E c \in RaceCodes : DispatchCode(p, 1, c)
        \/ VerifyStep(p, RaceDraws)
        \/ CodeStep(p)
        \/ Return(p, prev)

ConfirmRaceSpec == Init /\ [][ConfirmRaceNext]_vars

(* StartRaceSpec: /verify commands of one subject handled concurrently, each *)
(* dispatched while the map is empty and no /code is handled, then /code     *)
(* commands one at a time; prev keeps the last two invocations that returned *)

NoCodeHandled == \A q \in Procs : cmd[q] # "code"

StartRaceNext ==
    \E p \in Procs :
        \/ /\ NoCodeHandled
           /\ DOMAIN verificationCodes = {}
           /\ DispatchVerify(p, 1, "a@kosen-ac.jp")
        \/ AllIdle /\ \E c \in RaceCodes : DispatchCode(p, 1, c)
        \/ VerifyStep(p, RaceDraws)
        \/ CodeStep(p)
        \/ Return(p, Chained(p))

StartRaceSpec == Init /\ [][StartRaceNext]_vars

(* IsolationSpec: /verify and /code commands of two subjects handled         *)
(* concurrently on a 64-bit target, every external call succeeding           *)

Pair == { 1, 2 }

IsolationInit == Init /\ intSize = 64

IsolationNext ==
    \E p \in Procs :
        \/ \E u \in Pair : DispatchVerify(p, u, "a@kosen-ac.jp")
        \/ \E u \in Pair, c \in RaceCodes : DispatchCode(p, u, c)
        \/ VerifyValidate(p)
        \/ VerifyGenerate(p, RaceDraws)
        \/ VerifyLock(p)
        \/ VerifyStore(p)
        \/ VerifySend(p, FALSE)
        \/ CodeLock(p)
        \/ CodeRead(p)
        \/ CodeReject(p)
        \/ CodeRoleAdd(p, FALSE)
        \/ CodeLock2(p)
        \/ CodeDelete(p)
        \/ CodeChannelDelete(p, FALSE)
        \/ Return(p, prev)

IsolationSpec == IsolationInit /\ [][IsolationNext]_vars

(* LiveSpec: /verify and /code commands of one subject handled concurrently  *)
(* under fair scheduling: a goroutine that can take a step eventually takes  *)
(* one (every external call returns), and a goroutine waiting in Lock gets   *)
(* the mutex when it is released again and again (sync.Mutex hands the lock  *)
(* to a starving waiter)                                                     *)

\* one draw of rand.Read, and the code options of /code: the code it yields and a wrong one
LiveDraws == { <<0, 0, 0, 0>> }

LiveCodes == { generateVerificationCode(<<0, 0, 0, 0>>, 64), "" }

LiveInit == Init /\ intSize = 64

LiveNext ==
    \E p \in Procs :
        \/ DispatchVerify(p, 1, "a@kosen-ac.jp")
        \/ \E c \in LiveCodes : DispatchCode(p, 1, c)
        \/ VerifyStep(p, LiveDraws)
        \/ CodeStep(p)
        \/ Return(p, prev)

\* the next step of goroutine p, whichever handler it runs
HandlerStep(p) == VerifyStep(p, LiveDraws) \/ CodeStep(p) \/ Return(p, prev)

Fairness == \A p \in Procs : SF_vars(HandlerStep(p))

LiveSpec == LiveInit /\ [][LiveNext]_vars /\ Fairness

(* StartupSpec: the process from its start in any environment, then the     *)
(* interactions of one subject, one at a time                                *)

StartupNext ==
    \/ init
    \/ \E err \in BOOLEAN : main(err)
    \/ \E p \in Procs :
          \/ AllIdle /\ DispatchVerify(p, 1, "a@kosen-ac.jp")
          \/ AllIdle /\ \E c \in RaceCodes : DispatchCode(p, 1, c)
          \/ AllIdle /\ DispatchButton(p, 1)
          \/ VerifyStep(p, RaceDraws)
          \/ CodeStep(p)
          \/ ButtonStep(p)
          \/ Return(p, prev)

StartupSpec == StartupInit /\ [][StartupNext]_vars

----------------------------------------------------------------------------
(* Vocabulary of the properties *)

\* number of '@' in e, and the text after the first one
AtCount(e) == Cardinality({ i \in 1..Len(e) : SubSeq(e, i, i) = "@" })

AfterAt(e) ==
    LET i == CHOOSE k \in 1..Len(e) : SubSeq(e, k, k) = "@"
    IN  SubSeq(e, i + 1, Len(e))

\* e has one '@' and what follows it is kosen-ac.jp or <something>.kosen-ac.jp
KosenAddress(e) ==
    /\ AtCount(e) = 1
    /\ \/ AfterAt(e) = "kosen-ac.jp"
       \/ \E k \in 0..Len(AfterAt(e)) :
             SubSeq(AfterAt(e), k + 1, Len(AfterAt(e))) = ".kosen-ac.jp"

\* goroutine p is about to return from the handler of command c
Returning(p, c) == pc[p] = "return" /\ cmd[p] = c

\* no role grant call of p has failed
NoGrantFailed(p) == \A i \in 1..Len(roleAdds[p]) : ~roleAdds[p][i].err

\* the calls of p are one successful grant of the base role to its user
OneBaseGrant(p) ==
    roleAdds[p] = << [userID |-> userID[p], role |-> "verifiedRoleID", err |-> FALSE] >>

\* p is in handleCode before the comparison has been decided
BeforeDecision(p) == cmd[p] = "code" /\ pc[p] \in {"c_lock", "c_read", "c_check"}

----------------------------------------------------------------------------
(* C1: under SeqSpec, a /code carrying exactly the credential that the       *)
(* /verify handled just before it stored for the same subject (valid domain, *)
(* mail sent), and whose role grant does not fail, ends with no record of    *)
(* the subject in the store and exactly one base-role grant call for the     *)
(* subject, the /verify having made none.                                    *)

C1_Case(p) ==
    /\ Returning(p, "code")
    /\ prev.cmd = "verify" /\ prev.userID = userID[p]
    /\ prev.responses = <<"Sent">>
    /\ userCode[p] = prev.code
    /\ NoGrantFailed(p)

\* C1: /verify then /code with the stored credential: record gone, one base-role grant
C1_StartConfirmClears ==
    \A p \in Procs :
        C1_Case(p) =>
            /\ userID[p] \notin DOMAIN verificationCodes
            /\ OneBaseGrant(p)
            /\ prev.roleAdds = << >>

\* C1 is reached: such a /code has returned after its single successful grant
C1_Witness ==
    \E p \in Procs :
        C1_Case(p) /\ OneBaseGrant(p) /\ userID[p] \notin DOMAIN verificationCodes

----------------------------------------------------------------------------
(* C2: under DomainSpec, while a /verify whose e-mail is not a Kosen address *)
(* (not exactly one '@', or a domain that is neither kosen-ac.jp nor ends in *)
(* .kosen-ac.jp) is handled, the store does not change, no credential is     *)
(* generated and no mail is attempted; it returns after exactly one          *)
(* response, the domain error.                                                *)

\* C2: a /verify with a non-Kosen e-mail changes no state and only answers the domain error
C2_InvalidStartNoEffect ==
    /\ [][ \A p \in Procs :
             (cmd[p] = "verify" /\ ~KosenAddress(email[p])) =>
                 /\ verificationCodes' = verificationCodes
                 /\ code'[p] = ""
                 /\ mails'[p] = << >>
                 /\ pc'[p] \in {"v_validate", "return", "idle"} ]_vars
    /\ [](\A p \in Procs :
             (Returning(p, "verify") /\ ~KosenAddress(email[p])) =>
                 /\ responses[p] = <<"ErrDomain">>
                 /\ code[p] = "" /\ mails[p] = << >>
                 /\ roleAdds[p] = << >> /\ chanDeletes[p] = << >>)

\* C2 is reached: a foreign-domain /verify has returned while its subject has a record
C2_Witness ==
    \E p \in Procs :
        /\ Returning(p, "verify") /\ ~KosenAddress(email[p])
        /\ AtCount(email[p]) = 1
        /\ userID[p] \in DOMAIN verificationCodes
        /\ responses[p] = <<"ErrDomain">>

----------------------------------------------------------------------------
(* C3: under SeqSpec, a /code for a subject without a record in the store    *)
(* never changes the store, attempts no role grant and no channel deletion,  *)
(* whatever code is submitted, and answers with the code error.              *)

\* C3: a /code without a record fails with no grant, no channel deletion, no store change
C3_NoRecordConfirmFails ==
    /\ [][ \A p \in Procs :
             (BeforeDecision(p) /\ userID[p] \notin DOMAIN verificationCodes) =>
                 /\ verificationCodes' = verificationCodes
                 /\ roleAdds'[p] = << >> /\ chanDeletes'[p] = << >>
                 /\ pc'[p] \in {"c_lock", "c_read", "c_check", "return"} ]_vars
    /\ [](\A p \in Procs :
             (Returning(p, "code") /\ ~ok[p]) =>
                 /\ responses[p] = <<"ErrCode">>
                 /\ roleAdds[p] = << >> /\ chanDeletes[p] = << >>
                 /\ userID[p] \notin DOMAIN verificationCodes)

\* the record was consumed by the /code before, and the same code is sent again
C3_Witness ==
    \E p \in Procs :
        /\ Returning(p, "code") /\ ~ok[p]
        /\ prev.cmd = "code" /\ prev.userID = userID[p]
        /\ prev.responses = <<"Success">>
        /\ userCode[p] = prev.userCode
        /\ responses[p] = <<"ErrCode">> /\ roleAdds[p] = << >>

----------------------------------------------------------------------------
(* C4: under SeqSpec, a /code whose code differs from the subject's stored   *)
(* credential never changes the store and attempts no role grant; and a      *)
(* /code that follows such a rejected attempt with the credential that was   *)
(* stored then, its role grant not failing, succeeds: one base-role grant,   *)
(* the success response, the record removed.                                 *)

C4_RejectedBefore(p) ==
    /\ Returning(p, "code")
    /\ prev.cmd = "code" /\ prev.userID = userID[p]
    /\ prev.ok /\ prev.userCode # prev.correctCode
    /\ userCode[p] = prev.correctCode
    /\ NoGrantFailed(p)

\* C4: a wrong code keeps the record and grants nothing; the right code succeeds afterwards
C4_WrongCodeKeepsRecord ==
    /\ [][ \A p \in Procs :
             ( /\ BeforeDecision(p)
               /\ userID[p] \in DOMAIN verificationCodes
               /\ verificationCodes[userID[p]] # userCode[p] ) =>
                 /\ verificationCodes' = verificationCodes
                 /\ roleAdds'[p] = << >>
                 /\ pc'[p] \in {"c_lock", "c_read", "c_check", "return"} ]_vars
    /\ [](\A p \in Procs :
             (Returning(p, "code") /\ ok[p] /\ userCode[p] # correctCode[p]) =>
                 /\ responses[p] = <<"ErrCode">>
                 /\ roleAdds[p] = << >>
                 /\ userID[p] \in DOMAIN verificationCodes
                 /\ verificationCodes[userID[p]] = correctCode[p])
    /\ [](\A p \in Procs :
             C4_RejectedBefore(p) =>
                 /\ responses[p] = <<"Success">>
                 /\ OneBaseGrant(p)
                 /\ userID[p] \notin DOMAIN verificationCodes)

\* C4 is reached: a /code succeeded right after a rejected attempt on the same record
C4_Witness ==
    \E p \in Procs :
        /\ C4_RejectedBefore(p)
        /\ prev.responses = <<"ErrCode">> /\ prev.roleAdds = << >>
        /\ responses[p] = <<"Success">>
        /\ userID[p] \notin DOMAIN verificationCodes

----------------------------------------------------------------------------
(* C5: under ChainSpec, when the two invocations before a /code were         *)
(* /verify commands of the same subject that stored different credentials,   *)
(* the /code reaches the role grant exactly when it carries the second       *)
(* credential; with the first one it is rejected with the code error.        *)

C5_Case(p) ==
    /\ Returning(p, "code")
    /\ prev.cmd = "verify" /\ prev.userID = userID[p] /\ prev.mails # << >>
    /\ prev.prior.cmd = "verify" /\ prev.prior.userID = userID[p]
    /\ prev.prior.code # "" /\ prev.prior.code # prev.code

\* C5: after two /verify of a subject only the second credential confirms
C5_SecondStartWins ==
    \A p \in Procs :
        C5_Case(p) =>
            /\ roleAdds[p] # << >> <=> userCode[p] = prev.code
            /\ userCode[p] = prev.prior.code =>
                   responses[p] = <<"ErrCode">> /\ roleAdds[p] = << >>
            /\ (userCode[p] = prev.code /\ NoGrantFailed(p)) =>
                   responses[p] = <<"Success">> /\ OneBaseGrant(p)

\* C5 is reached: the first credential was rejected while the store holds the second
C5_Witness ==
    \E p \in Procs :
        /\ C5_Case(p)
        /\ userCode[p] = prev.prior.code
        /\ responses[p] = <<"ErrCode">>
        /\ verificationCodes[userID[p]] = prev.code

----------------------------------------------------------------------------
(* C6: under SeqSpec, a /code that matched the stored credential and whose   *)
(* role grant failed returns after the role error alone, with no channel     *)
(* deletion attempted and the record still holding the credential it read;   *)
(* and the /code that follows it with the same code, its grant not failing,  *)
(* succeeds.                                                                 *)

C6_GrantFailed(p) ==
    /\ Returning(p, "code")
    /\ roleAdds[p] # << >> /\ roleAdds[p][1].err

C6_Retry(p) ==
    /\ Returning(p, "code")
    /\ prev.cmd = "code" /\ prev.userID = userID[p]
    /\ prev.responses = <<"ErrRole">>
    /\ userCode[p] = prev.userCode
    /\ NoGrantFailed(p)

\* C6: a failed base-role grant aborts with the record kept, and the retry succeeds
C6_GrantFailureRetryable ==
    \A p \in Procs :
        /\ C6_GrantFailed(p) =>
               /\ responses[p] = <<"ErrRole">>
               /\ Len(roleAdds[p]) = 1
               /\ chanDeletes[p] = << >>
               /\ userID[p] \in DOMAIN verificationCodes
               /\ verificationCodes[userID[p]] = correctCode[p]
               /\ correctCode[p] = userCode[p]
        /\ C6_Retry(p) =>
               /\ responses[p] = <<"Success">>
               /\ OneBaseGrant(p)
               /\ userID[p] \notin DOMAIN verificationCodes

\* C6 is reached: a /code succeeded right after one whose grant failed
C6_Witness ==
    \E p \in Procs :
        /\ C6_Retry(p)
        /\ prev.roleAdds # << >> /\ prev.roleAdds[1].err
        /\ responses[p] = <<"Success">>
        /\ userID[p] \notin DOMAIN verificationCodes

----------------------------------------------------------------------------
(* C7: under SeqSpec, a /verify whose mail send failed returns after the     *)
(* mail error alone with the credential it generated in the store; and once  *)
(* the /verify that follows it for the same subject has written, the store   *)
(* holds the credential that this second /verify generated.                  *)

C7_SendFailed(p) ==
    /\ Returning(p, "verify")
    /\ mails[p] # << >> /\ mails[p][1].err

C7_Restart(p) ==
    /\ cmd[p] = "verify" /\ pc[p] \in {"v_send", "return"} /\ code[p] # ""
    /\ prev.cmd = "verify" /\ prev.userID = userID[p]
    /\ prev.responses = <<"ErrMail">>

\* C7: a failed mail send leaves the written credential; the next /verify replaces it
C7_MailFailureKeepsRecord ==
    \A p \in Procs :
        /\ C7_SendFailed(p) =>
               /\ responses[p] = <<"ErrMail">>
               /\ Len(mails[p]) = 1
               /\ userID[p] \in DOMAIN verificationCodes
               /\ verificationCodes[userID[p]] = code[p]
        /\ C7_Restart(p) =>
               /\ userID[p] \in DOMAIN verificationCodes
               /\ verificationCodes[userID[p]] = code[p]

\* C7 is reached: the /verify after a failed send stored another code and sent it
C7_Witness ==
    \E p \in Procs :
        /\ C7_Restart(p)
        /\ prev.code # code[p]
        /\ verificationCodes[userID[p]] = code[p]
        /\ pc[p] = "return" /\ responses[p] = <<"Sent">>

----------------------------------------------------------------------------
(* C8: under SeqSpec, with the role mapping of the specification's example,  *)
(* a /code that matches the credential of the /verify before it, whose       *)
(* e-mail domain the mapping names, and whose base grant succeeded, has      *)
(* granted the base role and the mapped role, and the record is removed.     *)

\* the mapping of the specification's example; the source reads none
DomainRoleMap == [d \in {"sub.kosen-ac.jp"} |-> "role_123"]

C8_Case(p) ==
    /\ Returning(p, "code")
    /\ prev.cmd = "verify" /\ prev.userID = userID[p]
    /\ prev.responses = <<"Sent">>
    /\ userCode[p] = prev.code
    /\ roleAdds[p] # << >> /\ ~roleAdds[p][1].err
    /\ AfterAt(prev.email) \in DOMAIN DomainRoleMap

\* C8: base role and mapped role are both granted, and the record is removed
C8_MappedRoleGranted ==
    \A p \in Procs :
        C8_Case(p) =>
            /\ \E i \in 1..Len(roleAdds[p]) :
                  roleAdds[p][i].role = "verifiedRoleID" /\ ~roleAdds[p][i].err
            /\ \E i \in 1..Len(roleAdds[p]) :
                  roleAdds[p][i].role = DomainRoleMap[AfterAt(prev.email)]
            /\ userID[p] \notin DOMAIN verificationCodes

----------------------------------------------------------------------------
(* C9: under DomainSpec, a /verify gets past the domain check exactly when   *)
(* its e-mail has one '@' followed by kosen-ac.jp or by a text ending in     *)
(* .kosen-ac.jp, every other input being answered with the domain error; and *)
(* the step that checks changes nothing but the position and the responses.  *)

\* C9: the domain check accepts exactly the Kosen addresses and has no side effect
C9_DomainCheck ==
    /\ [](\A p \in Procs :
             (cmd[p] = "verify" /\ pc[p] # "v_validate") =>
                 /\ responses[p] = <<"ErrDomain">> <=> ~KosenAddress(email[p])
                 /\ ~KosenAddress(email[p]) => pc[p] = "return")
    /\ [][ \A p \in Procs :
             pc[p] = "v_validate" =>
                 UNCHANGED <<host, opened, verificationCodes, codesMutex, locals,
                             mails, roleAdds, chanDeletes>> ]_vars

\* a subdomain address has passed the check
C9_Witness ==
    \E p \in Procs :
        /\ cmd[p] = "verify" /\ pc[p] = "v_generate"
        /\ KosenAddress(email[p]) /\ AfterAt(email[p]) # "kosen-ac.jp"
        /\ responses[p] = << >>

----------------------------------------------------------------------------
(* C10: under GenSpec, every code that generateVerificationCode returned is  *)
(* 6 characters long, all decimal digits, and reads as the first 6 digits of *)
(* the unsigned 32-bit value of the 4 bytes, zero-padded to 6 digits.        *)

DigitChars == { SubSeq("0123456789", d, d) : d \in 1..10 }

DigitValue(c) == CHOOSE d \in 0..9 : SubSeq("0123456789", d + 1, d + 1) = c

RECURSIVE Decimal(_)
Decimal(s) ==
    IF s = "" THEN 0
    ELSE 10 * Decimal(SubSeq(s, 1, Len(s) - 1)) + DigitValue(SubSeq(s, Len(s), Len(s)))

\* the first 6 digits of n = 2 * h + r (r < 2), n zero-padded to 6 digits: n itself
\* below 10^6, else n with its last k digits dropped, which is h \div (10^k / 2)
FirstSix(bytes) ==
    LET h == bytes[1] * 8388608 + bytes[2] * 32768 + bytes[3] * 128 + (bytes[4] \div 2)
    IN  IF h >= 500000000 THEN h \div 5000
        ELSE IF h >= 50000000 THEN h \div 500
        ELSE IF h >= 5000000 THEN h \div 50
        ELSE IF h >= 500000 THEN h \div 5
        ELSE 2 * h + (bytes[4] % 2)

Generated(p) == cmd[p] = "verify" /\ pc[p] \in {"v_lock", "v_store", "v_send"}

\* C10: the generated code is the first 6 decimal digits of the zero-padded unsigned value
C10_SixDigits ==
    \A p \in Procs :
        Generated(p) =>
            /\ Len(code[p]) = 6
            /\ \A i \in 1..6 : SubSeq(code[p], i, i) \in DigitChars
            /\ Decimal(code[p]) = FirstSix(b[p])

\* the same on the targets whose int is 64 bits wide
C10_SixDigitsInt64 ==
    intSize = 64 => C10_SixDigits

----------------------------------------------------------------------------
(* C11: under FrameSpec, a /verify whose e-mail passed the domain check and  *)
(* whose code generation failed (rand.Read returned an error, the code is    *)
(* the empty string) never changes the store on its way to the return,       *)
(* attempts no mail, and returns after the internal error response alone.    *)

\* p returns from a /verify that got past the domain check without a code
C11_GenerationFailed(p) ==
    Returning(p, "verify") /\ ~InvalidEmail(email[p]) /\ code[p] = ""

\* C11: a failed generation aborts /verify: store untouched, no mail, the internal error
C11_GenerationFailureAborts ==
    /\ [][ \A p \in Procs :
             (cmd[p] = "verify" /\ pc[p] = "v_generate" /\ pc'[p] = "return") =>
                 /\ verificationCodes' = verificationCodes
                 /\ code'[p] = "" /\ mails'[p] = << >>
                 /\ responses'[p] = <<"ErrInternal">> ]_vars
    /\ [](\A p \in Procs :
             C11_GenerationFailed(p) =>
                 /\ responses[p] = <<"ErrInternal">>
                 /\ mails[p] = << >> /\ roleAdds[p] = << >> /\ chanDeletes[p] = << >>
                 /\ (prev.cmd = "verify" /\ prev.userID = userID[p] /\ prev.code # "") =>
                        /\ userID[p] \in DOMAIN verificationCodes
                        /\ verificationCodes[userID[p]] = prev.code)

\* C11 is reached: the generation failed while the subject held a record, which is kept
C11_Witness ==
    \E p \in Procs :
        /\ C11_GenerationFailed(p)
        /\ prev.cmd = "verify" /\ prev.userID = userID[p] /\ prev.code # ""
        /\ userID[p] \in DOMAIN verificationCodes
        /\ verificationCodes[userID[p]] = prev.code
        /\ responses[p] = <<"ErrInternal">>

----------------------------------------------------------------------------
(* C12: under RaceSpec, a goroutine holds codesMutex exactly while it stands *)
(* at the map write of handleVerify or at the map read or delete of          *)
(* handleCode, at most one goroutine stands there, the holder's next step    *)
(* is that single map operation and releases the mutex, and no step that     *)
(* makes an external call (response, mail, role grant, channel deletion      *)
(* after the wait, channel creation, embed) is taken by the holder.          *)

\* p stands between a Lock and its Unlock
InCritical(p) == pc[p] \in {"v_store", "c_read", "c_delete"}

\* the step appends to one of p's call logs
CallsOut(p) ==
    \/ Len(responses'[p]) > Len(responses[p]) \/ Len(mails'[p]) > Len(mails[p])
    \/ Len(roleAdds'[p]) > Len(roleAdds[p]) \/ Len(chanDeletes'[p]) > Len(chanDeletes[p])
    \/ Len(chanCreates'[p]) > Len(chanCreates[p]) \/ Len(embeds'[p]) > Len(embeds[p])

\* C12: the mutex is held by one goroutine at a time, around one map operation, never in a call
C12_LockOnlyAroundMap ==
    /\ [](\A p \in Procs : InCritical(p) <=> codesMutex = p)
    /\ [](Cardinality({ p \in Procs : InCritical(p) }) <= 1)
    /\ [](\A p \in Procs : pc[p] \in {"v_send", "c_check", "c_sleep"} => codesMutex # p)
    /\ [][ \A p \in Procs :
             /\ CallsOut(p) => codesMutex # p /\ codesMutex' # p
             /\ (codesMutex = p /\ pc'[p] # pc[p]) =>
                    /\ codesMutex' = 0
                    /\ pc'[p] \in {"v_send", "c_check", "c_sleep"} ]_vars

\* C12 is reached: one goroutine holds the mutex for its delete while another waits for it
C12_Witness ==
    \E p, q \in Procs :
        /\ p # q
        /\ codesMutex = p /\ pc[p] = "c_delete"
        /\ pc[q] \in {"v_lock", "c_lock", "c_lock2"}

----------------------------------------------------------------------------
(* C13: under FrameSpec, the record of a subject changes only in the map     *)
(* write of a /verify of that subject (to the code it generated) or in the   *)
(* delete of a /code of that subject that matched and whose grant succeeded; *)
(* a /verify that fails before its write (domain, generation), a failed      *)
(* /code and a button click of the subject return with the record the        *)
(* /verify before them stored; a /verify whose mail send fails has already   *)
(* overwritten the record with its own code.  No step stands for time: the   *)
(* source has no timer on the map.                                           *)

\* the record of subject u, "absent" when the map has no key u
Rec(u) == IF u \in DOMAIN verificationCodes THEN verificationCodes[u] ELSE "absent"

\* the invocation before the one p handles was a /verify of the same subject that stored
StoredBefore(p) ==
    /\ pc[p] = "return"
    /\ prev.cmd = "verify" /\ prev.userID = userID[p] /\ prev.code # ""

\* p returns from a /verify or /code that ended in an error response
Failed(p) ==
    /\ pc[p] = "return" /\ cmd[p] \in {"verify", "code"}
    /\ responses[p] \notin { <<"Sent">>, <<"Success">> }

\* C13 as stated: every failed /verify and /code leaves the subject's record as it was
C13_FailedNeverAlters ==
    \A p \in Procs :
        (StoredBefore(p) /\ Failed(p)) => Rec(userID[p]) = prev.code

\* C13: the record changes only in the subject's own write or matched delete
C13_StoreFrame ==
    /\ [][ \A u \in Users :
             Rec(u)' # Rec(u) =>
                 \E p \in Procs :
                     /\ userID[p] = u
                     /\ \/ /\ cmd[p] = "verify"
                           /\ pc[p] = "v_store" /\ pc'[p] = "v_send"
                           /\ Rec(u)' = code[p]
                        \/ /\ cmd[p] = "code"
                           /\ pc[p] = "c_delete" /\ pc'[p] = "c_sleep"
                           /\ Rec(u)' = "absent"
                           /\ ok[p] /\ userCode[p] = correctCode[p]
                           /\ OneBaseGrant(p) ]_vars
    /\ [](\A p \in Procs :
             (StoredBefore(p) /\ Failed(p)) =>
                 Rec(userID[p]) = (IF responses[p] = <<"ErrMail">>
                                   THEN code[p] ELSE prev.code))
    /\ [](\A p \in Procs :
             (StoredBefore(p) /\ cmd[p] = startVerificationButtonID) =>
                 Rec(userID[p]) = prev.code)

\* C13 is reached: a /verify whose mail failed has replaced the record by another code
C13_Witness ==
    \E p \in Procs :
        /\ StoredBefore(p) /\ Failed(p)
        /\ responses[p] = <<"ErrMail">>
        /\ code[p] # prev.code
        /\ Rec(userID[p]) = code[p]
        /\ \E u \in Users : u # userID[p] /\ Rec(u) # "absent"

----------------------------------------------------------------------------
(* C14: under FrameSpec, a /code returns with exactly one channel deletion   *)
(* call, for the channel of the interaction, when it answered with the       *)
(* success response, and with none otherwise; the call is made after the     *)
(* wait, with the success response sent, the base role granted and the       *)
(* record removed, and whether it fails or not it changes neither the map    *)
(* nor the role calls.                                                       *)

----------------------------------------------------------------------------
(* C15: under RaceSpec, an invocation has made at most one mail send, and    *)
(* only a /verify makes one; it has made at most one role grant call, for    *)
(* the base role, and only a /code makes one; and after a failed send or a   *)
(* failed grant the handler has answered with the error and is at its        *)
(* return, with no further call.                                             *)

\* C15: one mail attempt per /verify, one base-role grant attempt per /code, no retry
C15_NoRetry ==
    \A p \in Procs :
        /\ Len(mails[p]) <= 1 /\ Len(roleAdds[p]) <= 1
        /\ mails[p] # << >> =>
               /\ cmd[p] = "verify" /\ pc[p] = "return" /\ roleAdds[p] = << >>
               /\ responses[p] = << IF mails[p][1].err THEN "ErrMail" ELSE "Sent" >>
        /\ roleAdds[p] # << >> =>
               /\ cmd[p] = "code" /\ mails[p] = << >>
               /\ roleAdds[p][1].role = "verifiedRoleID"
               /\ roleAdds[p][1].err =>
                      /\ pc[p] = "return" /\ responses[p] = <<"ErrRole">>
                      /\ chanDeletes[p] = << >>

\* C15 is reached: one handler returns after its failed send, another after its failed grant
C15_Witness ==
    \E p, q \in Procs :
        /\ Returning(p, "verify") /\ Len(mails[p]) = 1 /\ mails[p][1].err
        /\ Returning(q, "code") /\ Len(roleAdds[q]) = 1 /\ roleAdds[q][1].err

----------------------------------------------------------------------------
(* C16: under FrameSpec, a /verify or /code has made no response call before *)
(* its deciding step and exactly one from then on, and it returns with the   *)
(* one response of its path: the domain error, the internal error, the mail  *)
(* error or the sent notice for /verify; the code error, the role error or   *)
(* the success notice for /code.  An error response is thus never followed   *)
(* by another response.                                                      *)

\* the response of the path that the /verify or /code of p has taken to its return
PathResponse(p) ==
    IF cmd[p] = "verify"
    THEN IF InvalidEmail(email[p]) THEN "ErrDomain"
         ELSE IF code[p] = "" THEN "ErrInternal"
         ELSE IF mails[p][1].err THEN "ErrMail" ELSE "Sent"
    ELSE IF ~ok[p] \/ userCode[p] # correctCode[p] THEN "ErrCode"
         ELSE IF roleAdds[p][1].err THEN "ErrRole" ELSE "Success"

\* C16: exactly one response per /verify and /code, the one of its path
C16_OneResponse ==
    \A p \in Procs :
        cmd[p] \in {"verify", "code"} =>
            /\ Len(responses[p]) <= 1
            /\ pc[p] \in {"v_validate", "v_generate", "v_lock", "v_store", "v_send",
                           "c_lock", "c_read", "c_check"} => responses[p] = << >>
            /\ pc[p] \in {"c_lock2", "c_delete", "c_sleep"} => responses[p] = <<"Success">>
            /\ pc[p] = "return" => responses[p] = << PathResponse(p) >>

\* C16 is reached: a /code returns with its success notice after a /verify whose mail failed
C16_Witness ==
    \E p \in Procs :
        /\ Returning(p, "code") /\ responses[p] = <<"Success">>
        /\ chanDeletes[p] # << >>
        /\ prev.cmd = "verify" /\ prev.responses = <<"ErrMail">>
        /\ prev.userID = userID[p] /\ prev.code = userCode[p]

----------------------------------------------------------------------------
(* C17: under StartupSpec, when one of the six required values is empty the  *)
(* process never gets past init: init ends it, no goroutine ever handles a   *)
(* /verify, /code or button click, and no call is made.  When the six are    *)
(* set, init goes on to main whether or not the private-channel parent id    *)
(* is set, and interactions are handled once main has opened the session.    *)

\* one of the six required values is empty
RequiredMissing == \E k \in Mandatory : env[k] = ""

\* no goroutine handles an interaction and none has made a call
NothingHandled ==
    \A p \in Procs :
        /\ pc[p] = "idle"
        /\ responses[p] = << >> /\ mails[p] = << >> /\ roleAdds[p] = << >>
        /\ chanDeletes[p] = << >> /\ chanCreates[p] = << >> /\ embeds[p] = << >>

\* C17: a missing required value ends the process before any interaction is handled
C17_MissingConfigIsFatal ==
    /\ [](RequiredMissing =>
             /\ process \in {"init", "exited"}
             /\ NothingHandled
             /\ DOMAIN verificationCodes = {})
    /\ [](process # "running" => NothingHandled)
    /\ [][ process = "init" =>
             process' = (IF RequiredMissing THEN "exited" ELSE "main") ]_vars
    /\ [][ process = "exited" => process' = "exited" ]_vars

\* C17 is reached: with no private-channel parent id a button click got its channel created
C17_Witness ==
    /\ env["privateCategoryID"] = "" /\ ~RequiredMissing
    /\ process = "running"
    /\ \E p \in Procs :
          /\ cmd[p] = startVerificationButtonID /\ pc[p] = "return"
          /\ chanCreates[p] = << [userID |-> userID[p], ParentID |-> "", err |-> FALSE] >>
          /\ embeds[p] # << >>

----------------------------------------------------------------------------
(* C18: under RaceSpec, the map holds for each subject either nothing or one *)
(* code, one of those generated; the write of a /verify leaves the subject   *)
(* with exactly the code of that /verify, whatever the record was, adding a  *)
(* key only when the subject had none, and leaves the other subjects alone;  *)
(* the delete of a /code whose subject has no record changes nothing.        *)

\* C18: one record per subject: the write replaces, the delete of an absent record is a no-op
C18_OneRecordPerSubject ==
    /\ [](/\ DOMAIN verificationCodes \subseteq Users
          /\ \A u \in DOMAIN verificationCodes : verificationCodes[u] \in RaceCodes)
    /\ [][ \A p \in Procs :
             (pc[p] = "v_store" /\ pc'[p] = "v_send") =>
                 /\ Rec(userID[p])' = code[p]
                 /\ DOMAIN verificationCodes' = DOMAIN verificationCodes \cup {userID[p]}
                 /\ \A u \in Users \ {userID[p]} : Rec(u)' = Rec(u) ]_vars
    /\ [][ \A p \in Procs :
             (pc[p] = "c_delete" /\ pc'[p] = "c_sleep") =>
                 /\ Rec(userID[p])' = "absent"
                 /\ Rec(userID[p]) = "absent" => verificationCodes' = verificationCodes
                 /\ \A u \in Users \ {userID[p]} : Rec(u)' = Rec(u) ]_vars

\* C18 is reached: two /code of one subject are past their delete, the later one found no record
C18_Witness ==
    \E p, q \in Procs :
        /\ p # q /\ userID[p] = userID[q]
        /\ cmd[p] = "code" /\ pc[p] = "c_sleep"
        /\ cmd[q] = "code" /\ pc[q] \in {"c_sleep", "return"} /\ responses[q] = <<"Success">>
        /\ Rec(userID[p]) = "absent"

----------------------------------------------------------------------------
(* C19: under FrameSpec, no two subjects have the same code in the map, and  *)
(* the code a /verify has generated differs from the code that the /verify   *)
(* handled before it generated, whoever its subject was.                     *)

\* C19: stored codes differ between subjects, and a new code differs from the one before
C19_NeverReused ==
    /\ \A u, v \in DOMAIN verificationCodes :
           u # v => verificationCodes[u] # verificationCodes[v]
    /\ \A p \in Procs :
           (Generated(p) /\ prev.cmd = "verify" /\ prev.code # "") =>
               code[p] # prev.code

\* two subjects hold the same code, each written by its own /verify
C19_Collision ==
    \E u, v \in DOMAIN verificationCodes :
        /\ u # v /\ verificationCodes[u] = verificationCodes[v]
        /\ AllIdle /\ prev.cmd = "verify" /\ prev.code = verificationCodes[u]

----------------------------------------------------------------------------
(* C20: under ConfirmRaceSpec, where the /code commands in flight at one     *)
(* time all follow the write of one /verify, at most one of them has made a  *)
(* successful base-role grant call for the code that this /verify stored.    *)

\* p is in a /code that matched code c and whose base-role grant succeeded
Granted(p, c) ==
    /\ cmd[p] = "code" /\ userID[p] = 1
    /\ ok[p] /\ correctCode[p] = c /\ userCode[p] = c
    /\ OneBaseGrant(p)

\* C20: one stored credential leads to at most one successful base-role grant
C20_SingleUse ==
    \A c \in RaceCodes :
        Cardinality({ p \in Procs : Granted(p, c) }) <= 1

----------------------------------------------------------------------------
(* C21: under RaceSpec, the delete of a /code removes the subject's record   *)
(* only when that record is the code the /code read and matched; a record    *)
(* holding another code, written by a /verify after the read, is left in     *)
(* the map by the delete.                                                    *)

\* C21: the delete of a /code leaves a record that holds another code than the one it matched
C21_DeleteOnlyMatched ==
    [][ \A p \in Procs :
          ( /\ cmd[p] = "code" /\ pc[p] = "c_delete" /\ pc'[p] = "c_sleep"
            /\ Rec(userID[p]) # "absent"
            /\ Rec(userID[p]) # correctCode[p] ) =>
              Rec(userID[p])' = Rec(userID[p]) ]_vars

----------------------------------------------------------------------------
(* C22: under StartRaceSpec, where the /verify commands that write were all  *)
(* dispatched before the first of them wrote and no /code runs beside them,  *)
(* each map write leaves the subject with the code of the /verify that       *)
(* writes, and no other step of a /verify (its mail send, its return)        *)
(* changes the map: the record is the code written last, whatever the order  *)
(* of the mails.  A /code handled after two such /verify with different      *)
(* codes finds one record, one of the two codes, is rejected when it         *)
(* carries the other one and reaches the grant when it carries that one.     *)

\* the last two invocations that returned were /verify that stored different codes
C22_TwoStarts(p) ==
    /\ cmd[p] = "code" /\ pc[p] \in {"c_check", "c_lock2", "c_delete", "c_sleep", "return"}
    /\ prev.cmd = "verify" /\ prev.code # ""
    /\ prev.prior.cmd = "verify" /\ prev.prior.code # ""
    /\ prev.code # prev.prior.code

\* C22: of two concurrent /verify the last map write wins, and only its code confirms
C22_LastWriteWins ==
    /\ [][ \A p \in Procs :
             /\ (pc[p] = "v_store" /\ pc'[p] = "v_send") => Rec(1)' = code[p]
             /\ (cmd[p] = "verify" /\ pc'[p] # pc[p] /\ pc[p] # "v_store") =>
                    Rec(1)' = Rec(1) ]_vars
    /\ [](\A p \in Procs :
             C22_TwoStarts(p) =>
                 /\ ok[p] /\ correctCode[p] \in {prev.code, prev.prior.code}
                 /\ (userCode[p] # correctCode[p] /\ pc[p] = "return") =>
                        /\ responses[p] = <<"ErrCode">> /\ roleAdds[p] = << >>
                        /\ Rec(1) = correctCode[p]
                 /\ (userCode[p] = correctCode[p] /\ pc[p] = "return") =>
                        roleAdds[p] # << >>)

\* C22 is reached: the /verify that returned last had written first, and its code is rejected
C22_Witness ==
    \E p \in Procs :
        /\ C22_TwoStarts(p) /\ pc[p] = "return"
        /\ prev.responses = <<"Sent">> /\ prev.prior.responses = <<"Sent">>
        /\ userCode[p] = prev.code /\ correctCode[p] = prev.prior.code
        /\ responses[p] = <<"ErrCode">> /\ Rec(1) = prev.prior.code

----------------------------------------------------------------------------
(* C23: under RaceSpec, a /verify reaches its mail send only by its map      *)
(* write, which leaves the subject's record holding the generated code; the  *)
(* mail is sent from there, to the e-mail of the command and with that same  *)
(* code; and no other handler sends a mail.                                  *)

\* C23: the mail is sent after the map write and carries the code that was written
C23_MailAfterStore ==
    /\ [][ \A p \in Procs :
             /\ (pc'[p] = "v_send" /\ pc[p] # "v_send") =>
                    /\ pc[p] = "v_store" /\ cmd[p] = "verify"
                    /\ code[p] # "" /\ code'[p] = code[p]
                    /\ Rec(userID[p])' = code[p]
             /\ Len(mails'[p]) > Len(mails[p]) =>
                    /\ pc[p] = "v_send"
                    /\ mails'[p] = << [recipient |-> email[p], code |-> code[p],
                                     err |-> mails'[p][1].err] >> ]_vars
    /\ [](\A p \in Procs :
             mails[p] # << >> =>
                 /\ cmd[p] = "verify" /\ pc[p] = "return"
                 /\ mails[p][1].code = code[p] /\ code[p] \in RaceCodes
                 /\ mails[p][1].recipient = email[p])

\* C23 is reached: a /verify has mailed the code that the subject's record holds
C23_Witness ==
    \E p \in Procs :
        /\ Returning(p, "verify")
        /\ mails[p] = << [recipient |-> email[p], code |-> code[p], err |-> FALSE] >>
        /\ Rec(userID[p]) = code[p]

----------------------------------------------------------------------------
(* C24: under IsolationSpec, the read of a /code yields the record of its    *)
(* own subject as the map holds it at that step, and nothing of another      *)
(* subject's record; a role grant call is made only by a /code, for its own  *)
(* subject, after such a read found a record equal to the submitted code;    *)
(* and the record of a subject changes only in a step of a handler invoked   *)
(* by that subject.                                                          *)

\* C24: handlers read, write and delete the record of their own subject only
C24_SubjectsIsolated ==
    /\ [][ \A p \in Procs :
             /\ (pc[p] = "c_read" /\ pc'[p] = "c_check") =>
                    /\ ok'[p] = (Rec(userID[p]) # "absent")
                    /\ ok'[p] => correctCode'[p] = Rec(userID[p])
             /\ Len(roleAdds'[p]) > Len(roleAdds[p]) =>
                    /\ cmd[p] = "code"
                    /\ roleAdds'[p][1].userID = userID[p]
                    /\ ok[p] /\ userCode[p] = correctCode[p] ]_vars
    /\ [][ \A u \in Pair :
             Rec(u)' # Rec(u) =>
                 \E p \in Procs : pc'[p] # pc[p] /\ userID[p] = u ]_vars
    /\ [](\A p \in Procs :
             roleAdds[p] # << >> =>
                 /\ roleAdds[p][1].userID = userID[p]
                 /\ ok[p] /\ userCode[p] = correctCode[p])

\* C24 is reached: a /code carrying the other subject's stored code is rejected
C24_Witness ==
    \E p, q \in Procs :
        /\ userID[p] # userID[q]
        /\ Returning(q, "code") /\ responses[q] = <<"ErrCode">> /\ roleAdds[q] = << >>
        /\ userCode[q] = Rec(userID[p]) /\ ok[q] /\ correctCode[q] = Rec(userID[q])
        /\ cmd[p] = "code" /\ pc[p] = "c_lock2" /\ correctCode[p] = Rec(userID[p])

----------------------------------------------------------------------------
(* C25: under RaceSpec, a /code has sent the success response only after one *)
(* successful base-role grant for its subject, and is past its delete only   *)
(* after the success response; and while it stands between the success       *)
(* response and its delete, the map still holds for its subject the code it  *)
(* matched.                                                                  *)

\* grant, then success response, then delete
C25_StepOrder ==
    \A p \in Procs :
        cmd[p] = "code" =>
            /\ responses[p] = <<"Success">> => OneBaseGrant(p)
            /\ pc[p] \in {"c_lock2", "c_delete", "c_sleep"} => responses[p] = <<"Success">>
            /\ chanDeletes[p] # << >> => responses[p] = <<"Success">>

\* between the success response and the delete the record is the code that was matched
C25_StillPresent ==
    \A p \in Procs :
        (cmd[p] = "code" /\ pc[p] \in {"c_lock2", "c_delete"}) =>
            Rec(userID[p]) = correctCode[p]

\* C25: grant, success response, delete in this order, the record present until the delete
C25_ConfirmOrder == C25_StepOrder /\ C25_StillPresent

----------------------------------------------------------------------------
(* C26: under LiveSpec, every /verify and /code that was dispatched          *)
(* eventually returns and its goroutine ends; a goroutine that holds the     *)
(* mutex eventually releases it, and none holds it at its return or while    *)
(* idle; and in every state some goroutine can take a step: whenever the     *)
(* mutex is held, its holder stands at the map operation that releases it.   *)

\* goroutine p can take a step of its handler or end
CanStep(p) ==
    \/ pc[p] \in {"v_validate", "v_generate", "v_store", "v_send", "c_read", "c_check",
                  "c_delete", "c_sleep", "return"}
    \/ pc[p] \in {"v_lock", "c_lock", "c_lock2"} /\ codesMutex = 0

\* C26: every invocation finishes, every Lock is followed by its Unlock, no deadlock
C26_HandlersTerminate ==
    /\ \A p \in Procs : (pc[p] # "idle") ~> (pc[p] = "idle")
    /\ \A p \in Procs : (codesMutex = p) ~> (codesMutex # p)
    /\ [](\A p \in Procs : pc[p] \in {"idle", "return"} => codesMutex # p)
    /\ [](codesMutex # 0 => InCritical(codesMutex))
    /\ []((\E p \in Procs : pc[p] # "idle") => \E p \in Procs : CanStep(p))

\* C26 is reached: a /verify waits in Lock while a /code holds the mutex for its read
C26_Witness ==
    \E p, q \in Procs :
        /\ p # q
        /\ cmd[p] = "verify" /\ pc[p] = "v_lock"
        /\ cmd[q] = "code" /\ pc[q] = "c_read" /\ codesMutex = q

====
